---- MODULE Spec2Model ----
(***************************************************************************)
(* Model of the chat-agent backend: the multi-step chat loop (handleChat), *)
(* the tool handlers it calls, the Single-Agent Executor and the           *)
(* Orchestrator (AgentExecutor.executeAgent / orchestrate), and the        *)
(* tool-server manager (MCPClientManager, initializeMCP).                  *)
(*                                                                         *)
(* generateText is the AI SDK's bounded tool-calling loop: one provider    *)
(* call per step, then the step's tools (Promise.all), then the awaited    *)
(* onStepFinish callback; it continues while the step requested tools and  *)
(* the step count is below maxSteps, rejects on the first exception, and   *)
(* returns the text, toolCalls and toolResults of its LAST step.           *)
(***************************************************************************)
EXTENDS Integers, Sequences, FiniteSets, TLC

VARIABLES
  \* ---- tool-server manager (mcp-client.ts) ----
  initialized,   \* MCPClientManager.initialized
  fsStatus,      \* clients.get('filesystem').status, "none" when absent
  serverUp,      \* whether the remote tool server answers calls
  mcpPc,         \* position of the initializeMCP flow, "idle" when none runs
  connectOutcome, \* how the latest initialize() call ended
  mcpTools,      \* the tools handed to agentExecutor.setMCPTools
  openClients,   \* connections to the tool server opened and not closed
  \* ---- chat loop (handleChat) ----
  tools,         \* the tool registry handed to handleChat
  chatPc,        \* position of the handleChat flow
  steps,         \* the steps generateText has produced so far
  sink,          \* what has been put on the wire of the response
  chatError,     \* origin of the exception caught by handleChat
  \* ---- agent tools, Orchestrator, Single-Agent Executor ----
  entry,         \* which handler started the agent flow
  request,       \* the arguments the handler was called with
  orchPc,        \* position of the agent flow
  planStep,      \* steps of the planning call so far
  planCalls,     \* tool calls of the planning call's current step
  planDelegated, \* delegateToAgent calls of the planning call's earlier steps
  delegations,   \* delegations extracted from planResult.toolCalls
  tasks,         \* the CollaborationTask list
  taskIdx,       \* index of the task the for-loop is at
  results,       \* the AgentResult list
  agentStep,     \* steps of the running executeAgent provider call
  agentResult,   \* the AgentResult executeAgent returned, NoResult before
  execLog,       \* arguments of every executeAgent invocation, in order
  providerCalls, \* provider calls made by the latest executeAgent invocation
  activeAgentInfo, \* the process-wide single-slot status
  toolOutcome,   \* how the agent-tool handler ended
  \* ---- concurrent agent requests and the Active-Agent Status ----
  reqs,          \* the agent and orchestration requests of the process
  writes,        \* every value written to activeAgentInfo, in order
  \* ---- library functions called on their own ----
  libOp,         \* the function called, "none" when none is
  libPc,         \* "called" before the function ran, "returned" after
  libIn,         \* its arguments
  libOut,        \* what it returned
  \* ---- initialize() calls in flight at the same time ----
  initPc,        \* caller -> "new", "connecting", "returned"
  connects       \* successful connections since the last close()

mcpVars   == <<initialized, fsStatus, serverUp, mcpPc, connectOutcome, mcpTools, openClients>>
chatVars  == <<tools, chatPc, steps, sink, chatError>>
agentVars == <<entry, request, orchPc, planStep, planCalls, planDelegated, delegations, tasks,
               taskIdx, results, agentStep, agentResult, execLog, providerCalls,
               activeAgentInfo, toolOutcome>>
slotVars  == <<reqs, writes>>
libVars   == <<libOp, libPc, libIn, libOut>>
initVars  == <<initPc, connects>>
extraVars == <<slotVars, libVars, initVars>>
vars == <<mcpVars, chatVars, agentVars, extraVars>>

(***************************************************************************)
(* Bounds                                                                  *)
(***************************************************************************)
\* most steps of one chat turn in which the provider produces text
MaxTextSteps == 2
\* most tool invocations the provider requests in one step of a chat turn
\* (only the first step of a turn requests more than one)
MaxCalls == 2
\* most connections to the tool server open at a time
MaxOpenClients == 2
\* most tool calls in one step of a planning call, and most delegateToAgent
\* calls of a whole planning call
MaxPlanCalls == 3

\* most elements of an array payload, and most blocks of a message
MaxElems == 2
\* most initialize() calls in flight at the same time
NumCallers == 2
\* most agent and orchestration requests running concurrently
NumRequests == 2

(***************************************************************************)
(* Program constants                                                       *)
(***************************************************************************)
ChatMaxSteps  == 10
PlanMaxSteps  == 5
AgentMaxSteps == 3

(***************************************************************************)
(* Helpers                                                                 *)
(***************************************************************************)
Reqs == 1..NumRequests

\* no agent or orchestration request has been received
NoRequest == [kind |-> "none", agent |-> "", task |-> "", pc |-> "new", outcome |-> "none"]

SlotIdle ==
  /\ reqs = [r \in Reqs |-> NoRequest]
  /\ writes = <<>>

Callers == 1..NumCallers

\* no library function is being called on its own
LibIdle ==
  /\ libOp = "none"
  /\ libPc = "idle"
  /\ libIn = <<>>
  /\ libOut = <<>>

\* no initialize() call is in flight
InitIdle ==
  /\ initPc = [c \in Callers |-> "new"]
  /\ connects = 0

ExtraIdle == SlotIdle /\ LibIdle /\ InitIdle

Last(s) == s[Len(s)]

RECURSIVE SumSeq(_)
SumSeq(s) == IF s = <<>> THEN 0 ELSE s[1] + SumSeq(Tail(s))

(***************************************************************************)
(* Tool Invocation Contract: the handlers the chat loop can call.  An      *)
(* outcome is [thrown, result]; result is the payload the handler returns. *)
(***************************************************************************)
OkPayload      == "success:true"
FailurePayload == "success:false"

Returned(payload) == [thrown |-> FALSE, result |-> payload]
Thrown            == [thrown |-> TRUE, result |-> ""]

\* MCPClientManager.callTool: throws unless the source is connected, then
\* forwards to the remote server, which answers or fails.
CallTool ==
  IF fsStatus # "connected" THEN Thrown
  ELSE IF serverUp THEN Returned(OkPayload) ELSE Thrown

\* fallback tools readFile, listDirectory, searchCode, getFileInfo, writeFile:
\* all five share this shape (try { if initialized: return callTool } catch {}
\* return failure payload).
FallbackExecute_NoCatch ==
  IF initialized THEN CallTool ELSE Thrown

FallbackExecute ==
  IF initialized /\ ~CallTool.thrown THEN CallTool
  ELSE Returned(FailurePayload)

\* a dynamically registered <source>_<tool>: calls the client captured when
\* the registry was built; any exception becomes {success:false, error}.
DynamicExecute ==
  IF fsStatus = "connected" /\ serverUp THEN Returned(OkPayload)
  ELSE Returned(FailurePayload)

\* collaborativeTask / callAgent as seen from the chat loop: the outcomes the
\* handlers of the agent flow below can end with.
AgentToolOutcomes(name) ==
  IF name = "collaborativeTask" THEN {Returned(OkPayload), Thrown}
  ELSE {Returned(OkPayload), Returned(FailurePayload)}

FallbackTools == {"readFile"}
DynamicTools  == {"filesystem_read_file"}
AgentTools    == {"collaborativeTask"}
ChatTools     == FallbackTools \cup DynamicTools \cup AgentTools

\* the outcomes of executing tool `name` in the current environment
ExecuteOutcomes(name) ==
  IF name \in FallbackTools THEN {FallbackExecute}
  ELSE IF name \in DynamicTools THEN {DynamicExecute}
  ELSE AgentToolOutcomes(name)

\* loadMCPTools: the dynamic tools of the connected sources, {} when the
\* manager is not initialized
LoadMCPTools ==
  IF initialized /\ fsStatus = "connected" THEN DynamicTools ELSE {}

\* getAllMCPTools: the fallback tools, plus the dynamic tools if there are any
GetAllMCPTools_DynamicOnly == LoadMCPTools

GetAllMCPTools ==
  IF LoadMCPTools = {} THEN FallbackTools ELSE FallbackTools \cup LoadMCPTools

\* the skill tools merged into every registry
SkillTools == {"readSkill"}

(***************************************************************************)
(* Chat Step Events                                                        *)
(***************************************************************************)
\* `step` is the index of the provider step whose callback wrote the event,
\* 0 for an event written outside a callback.
Event(type, step, name, data, entries) ==
  [type |-> type, step |-> step, name |-> name, data |-> data, entries |-> entries]

TextEvent(k, text)    == Event("text", k, "", text, <<>>)
CallingEvent(k, tc)   == Event("calling", k, tc.toolName, "", <<>>)
CompletedEvent(k, tr) == Event("completed", k, tr.toolName, tr.result, <<>>)
SummaryEvent(es)      == Event("summary", 0, "", "", es)
ErrorEvent            == Event("error", 0, "", "", <<>>)
DoneEvent             == Event("DONE", 0, "", "", <<>>)
EndOfResponse         == Event("EOF", 0, "", "", <<>>)

\* what onStepFinish writes for step number k, in the order it writes it
StepEvents_ResultsFirst(k, step) ==
  (IF step.text # "" THEN <<TextEvent(k, step.text)>> ELSE <<>>)
  \o [i \in 1..Len(step.toolResults) |-> CompletedEvent(k, step.toolResults[i])]
  \o [i \in 1..Len(step.toolCalls) |-> CallingEvent(k, step.toolCalls[i])]

StepEvents(k, step) ==
  (IF step.text # "" THEN <<TextEvent(k, step.text)>> ELSE <<>>)
  \o [i \in 1..Len(step.toolCalls) |-> CallingEvent(k, step.toolCalls[i])]
  \o [i \in 1..Len(step.toolResults) |-> CompletedEvent(k, step.toolResults[i])]

\* the lengths of the prefixes of a step's events after which the callback
\* can fail: serialising a tool call or a tool result may throw, a text cannot
ThrowPoints(step) ==
  LET t == IF step.text # "" THEN 1 ELSE 0
  IN  t .. (t + Len(step.toolCalls) + Len(step.toolResults) - 1)

(***************************************************************************)
(* generateText as used by handleChat                                      *)
(***************************************************************************)
Texts == {"", "txt"}

TextSteps  == Cardinality({i \in 1..Len(steps) : steps[i].text # ""})
CallsSoFar == SumSeq([i \in 1..Len(steps) |-> Len(steps[i].toolCalls)])

\* the tool calls a provider step may request: n calls of registered tools,
\* with consecutive invocation ids
StepCalls(n, name) ==
  [i \in 1..n |-> [toolCallId |-> CallsSoFar + i, toolName |-> name]]

\* nextStepType of the SDK loop, decided after stepCount was incremented
ContinueAfter_OffByOne(maxSteps, stepCount, step) ==
  /\ stepCount <= maxSteps
  /\ Len(step.toolCalls) > 0
  /\ Len(step.toolResults) = Len(step.toolCalls)

ContinueAfter(maxSteps, stepCount, step) ==
  /\ stepCount < maxSteps
  /\ Len(step.toolCalls) > 0
  /\ Len(step.toolResults) = Len(step.toolCalls)


(***************************************************************************)
(* Agent Registry and the data of the agent flow                           *)
(***************************************************************************)
\* agentConfigs: name -> displayName (two of the five personas are enough to
\* tell delegations apart)
agentConfigs ==
  [n \in {"code-analyzer", "refactorer"} |->
     IF n = "code-analyzer" THEN "CodeAnalyst" ELSE "RefactoringExpert"]

AgentNames == DOMAIN agentConfigs

DisplayName(n) == IF n \in AgentNames THEN agentConfigs[n] ELSE n

\* an AgentResult; NoResult stands for "no result attached"
NoResult == [agentName |-> "", success |-> FALSE, result |-> "", error |-> ""]

NotFoundResult(agentName) ==
  [agentName |-> agentName, success |-> FALSE, result |-> "", error |-> "agent not found"]

FailedResult_AsSuccess(agentName) ==
  [agentName |-> agentName, success |-> TRUE, result |-> "", error |-> "provider failed"]

FailedResult(agentName) ==
  [agentName |-> agentName, success |-> FALSE, result |-> "", error |-> "provider failed"]

SuccessResult(agentName) ==
  [agentName |-> agentName, success |-> TRUE, result |-> "output", error |-> ""]

\* the task/context pairs a request or a delegation carries ("" = no context)
TaskArgs == { [task |-> "t1", context |-> "c1"], [task |-> "t2", context |-> ""] }

\* the tool calls a planning step can request: a delegation, or another tool
DelegateCall(a, ta) ==
  [toolName |-> "delegateToAgent",
   args |-> [agentName |-> a, task |-> ta.task, context |-> ta.context]]

OtherCall ==
  [toolName |-> "aggregateResults",
   args |-> [agentName |-> "", task |-> "", context |-> ""]]

PlanCallKinds ==
  { DelegateCall("refactorer", [task |-> "t1", context |-> "c1"]),
    DelegateCall("refactorer", [task |-> "t2", context |-> ""]),
    DelegateCall("code-analyzer", [task |-> "t1", context |-> "c1"]),
    OtherCall }

(***************************************************************************)
(* handleChat                                                              *)
(***************************************************************************)
StepCount == Len(steps)

\* `await generateText(...)`, one provider call: the provider fails, or
\* answers with a text and the tool invocations it requests
ProviderStep ==
  /\ chatPc = "model"
  /\ \/ /\ chatPc' = "catch"
        /\ chatError' = "provider"
        /\ UNCHANGED steps
     \/ \E text \in Texts, name \in tools \cup {"none"} :
        \E n \in 0..MaxCalls :
          /\ text # "" => TextSteps < MaxTextSteps
          /\ n > 1 => steps = <<>>
          /\ (name = "none") = (n = 0)
          /\ steps' = Append(steps, [text |-> text,
                                     toolCalls |-> StepCalls(n, name),
                                     toolResults |-> <<>>])
          /\ chatPc' = "tools"
          /\ UNCHANGED chatError
  /\ UNCHANGED <<tools, sink, mcpVars, agentVars, extraVars>>

\* executeTools: every requested tool runs (Promise.all); the results keep
\* the order of the calls; one throwing handler rejects generateText
ExecuteTools ==
  /\ chatPc = "tools"
  /\ LET step == Last(steps)
         n    == Len(step.toolCalls)
     IN \E outs \in [1..n -> UNION {ExecuteOutcomes(t) : t \in ChatTools}] :
          /\ \A i \in 1..n : outs[i] \in ExecuteOutcomes(step.toolCalls[i].toolName)
          /\ IF \E i \in 1..n : outs[i].thrown
             THEN /\ chatPc' = "catch"
                  /\ chatError' = "tool"
                  /\ UNCHANGED steps
             ELSE /\ steps' = [steps EXCEPT ![Len(steps)].toolResults =
                       [i \in 1..n |-> [toolCallId |-> step.toolCalls[i].toolCallId,
                                        toolName   |-> step.toolCalls[i].toolName,
                                        result     |-> outs[i].result]]]
                  /\ chatPc' = "callback"
                  /\ UNCHANGED chatError
  /\ UNCHANGED <<tools, sink, mcpVars, agentVars, extraVars>>

\* `await onStepFinish(step)`: writes the step's events; an exception inside
\* the callback leaves the events written before it and rejects generateText
OnStepFinish ==
  /\ chatPc = "callback"
  /\ LET step   == Last(steps)
         events == StepEvents(StepCount, step)
     IN \/ /\ sink' = sink \o events
           /\ chatPc' = IF ContinueAfter(ChatMaxSteps, StepCount, step)
                        THEN "model" ELSE "finish"
           /\ UNCHANGED chatError
        \/ \E p \in ThrowPoints(step) :
           /\ sink' = sink \o SubSeq(events, 1, p)
           /\ chatPc' = "catch"
           /\ chatError' = "callback"
  /\ UNCHANGED <<tools, steps, mcpVars, agentVars, extraVars>>

\* result.text, result.toolCalls, result.toolResults: those of the last step
ResultText        == Last(steps).text
ResultToolCalls   == Last(steps).toolCalls
ResultToolResults == Last(steps).toolResults

\* result.toolResults.find(tr => tr.toolCallId === id): the first match, or
\* "undefined"
FindResult(id) ==
  LET hits == {i \in 1..Len(ResultToolResults) : ResultToolResults[i].toolCallId = id}
  IN  IF hits = {} THEN "undefined"
      ELSE ResultToolResults[CHOOSE i \in hits : \A j \in hits : i <= j].result

ToolCallsSummary ==
  [i \in 1..Len(ResultToolCalls) |->
     [name |-> ResultToolCalls[i].toolName,
      result |-> FindResult(ResultToolCalls[i].toolCallId)]]

\* after generateText returned: the final text, then the tool-call summary;
\* serialising the summary may throw after the text was written
FinalEvents ==
  (IF ResultText # "" THEN <<TextEvent(0, ResultText)>> ELSE <<>>)
  \o (IF Len(ResultToolCalls) > 0 THEN <<SummaryEvent(ToolCallsSummary)>> ELSE <<>>)

FinishChat ==
  /\ chatPc = "finish"
  /\ \/ /\ sink' = sink \o FinalEvents
        /\ chatPc' = "done"
        /\ UNCHANGED chatError
     \/ /\ Len(ResultToolCalls) > 0
        /\ sink' = sink \o SubSeq(FinalEvents, 1, Len(FinalEvents) - 1)
        /\ chatPc' = "catch"
        /\ chatError' = "summary"
  /\ UNCHANGED <<tools, steps, mcpVars, agentVars, extraVars>>

\* the catch block: one error event, then fall through to the end
AfterCatch_Return   == "closed"
AfterCatch_Finish   == IF steps = <<>> THEN "done" ELSE "finish"
AfterCatch_Rethrow  == "rethrown"

AfterCatch == "done"

CatchChat ==
  /\ chatPc = "catch"
  /\ sink' = Append(sink, ErrorEvent)
  /\ chatPc' = AfterCatch
  /\ UNCHANGED <<tools, steps, chatError, mcpVars, agentVars, extraVars>>

\* res.write('data: [DONE]\n\n')
WriteDone ==
  /\ chatPc = "done"
  /\ sink' = Append(sink, DoneEvent)
  /\ chatPc' = "end"
  /\ UNCHANGED <<tools, steps, chatError, mcpVars, agentVars, extraVars>>

\* res.end()
EndResponse ==
  /\ chatPc = "end"
  /\ sink' = Append(sink, EndOfResponse)
  /\ chatPc' = "closed"
  /\ UNCHANGED <<tools, steps, chatError, mcpVars, agentVars, extraVars>>

NextChat ==
  \/ ProviderStep
  \/ ExecuteTools
  \/ OnStepFinish
  \/ FinishChat
  \/ CatchChat
  \/ WriteDone
  \/ EndResponse

\* the states of the tool-server manager a chat turn can start in: connected,
\* failed to connect, or closed after a connection
McpStates ==
  { [initialized |-> TRUE,  fsStatus |-> "connected",    serverUp |-> TRUE],
    [initialized |-> TRUE,  fsStatus |-> "connected",    serverUp |-> FALSE],
    [initialized |-> FALSE, fsStatus |-> "error",        serverUp |-> FALSE],
    [initialized |-> FALSE, fsStatus |-> "disconnected", serverUp |-> TRUE] }

\* the manager after an initializeMCP flow that ended in state (initialized,
\* fsStatus), possibly followed by close()
ManagerSettled ==
  /\ mcpPc = "idle"
  /\ connectOutcome = (IF fsStatus = "error" THEN "failed" ELSE "connected")
  /\ mcpTools = (IF fsStatus = "error" THEN FallbackTools
                 ELSE FallbackTools \cup DynamicTools)
  /\ openClients = (IF fsStatus = "connected" THEN 1 ELSE 0)

\* the registries handleChat is called with
Registries == {{t} : t \in ChatTools}

AgentIdle ==
  /\ entry = "none"
  /\ request = [agentName |-> "", task |-> "", context |-> ""]
  /\ orchPc = "idle"
  /\ planStep = 0
  /\ planCalls = <<>>
  /\ planDelegated = 0
  /\ delegations = <<>>
  /\ tasks = <<>>
  /\ taskIdx = 0
  /\ results = <<>>
  /\ agentStep = 0
  /\ agentResult = NoResult
  /\ execLog = <<>>
  /\ providerCalls = 0
  /\ activeAgentInfo = [name |-> "", status |-> "null", task |-> ""]
  /\ toolOutcome = "none"

InitChat ==
  /\ \E m \in McpStates :
       /\ initialized = m.initialized
       /\ fsStatus = m.fsStatus
       /\ serverUp = m.serverUp
  /\ ManagerSettled
  /\ ExtraIdle
  /\ tools \in Registries
  \* a dynamic tool is registered only after a successful connection; the
  \* agent tools do not depend on the manager's state
  /\ (tools \cap DynamicTools # {}) => fsStatus \in {"connected", "disconnected"}
  /\ (tools \cap AgentTools # {}) => (initialized /\ serverUp)
  /\ chatPc = "model"
  /\ steps = <<>>
  /\ sink = <<>>
  /\ chatError = "none"
  /\ AgentIdle

SpecChat == InitChat /\ [][NextChat]_vars

\* every provider call, tool call and callback eventually returns or throws,
\* and the event loop runs the continuation
FairSpecChat == InitChat /\ [][NextChat]_vars /\ WF_vars(NextChat)

(***************************************************************************)
(* Claims about the chat loop                                              *)
(***************************************************************************)
OfType(t)  == {i \in 1..Len(sink) : sink[i].type = t}
StepEventsAt(k, t) == {i \in 1..Len(sink) : sink[i].type = t /\ sink[i].step = k}

\* C1: every chat turn writes exactly one [DONE] marker, as its last event,
\* and closes the sink exactly once, right after the marker; nothing is
\* written after the close.
C1_StreamTerminatedOnce ==
  /\ Cardinality(OfType("DONE")) <= 1
  /\ Cardinality(OfType("EOF")) <= 1
  /\ \A i \in OfType("DONE") : \A j \in (i+1)..Len(sink) : sink[j].type = "EOF"
  /\ \A i \in OfType("EOF") : i = Len(sink) /\ i > 1 /\ sink[i-1].type = "DONE"
  /\ chatPc = "closed" => Cardinality(OfType("DONE")) = 1 /\ Cardinality(OfType("EOF")) = 1

\* a turn that ended after an exception inside a step callback
C1_Witness ==
  /\ chatPc = "closed"
  /\ chatError = "callback"
  /\ Len(sink) >= 4

\* the callback of step k ran to its end
CallbackDone(k) ==
  /\ k \in 1..Len(steps)
  /\ \/ k < Len(steps)
     \/ chatPc \notin {"tools", "callback"} /\ chatError \notin {"tool", "callback"}

Rank(t) == IF t = "text" THEN 1 ELSE IF t = "calling" THEN 2 ELSE 3

\* the events written inside step callbacks, in the order they were written
CallbackEvents ==
  LET InCallback(e) == e.step > 0
  IN  SelectSeq(sink, InCallback)

\* the steps whose event counts are compared with the sink in this state:
\* all of them once the turn is closed, the two latest steps before (the
\* sink only grows, and the events of earlier steps are followed by later ones)
StepsToCompare ==
  IF chatPc = "closed" THEN 1..Len(steps)
  ELSE {Len(steps) - 1, Len(steps)} \cap (1..Len(steps))

\* C2: the events of the steps appear in step order; within a step the text
\* comes first, then the "calling" events, then the "completed" events; a
\* completed step has one text event iff it produced text, one "calling"
\* event per invocation and one "completed" event per result.
C2_StepEventOrder ==
  /\ LET ev == CallbackEvents
     IN \A i \in 1..(Len(ev) - 1) :
          /\ ev[i].step <= ev[i+1].step
          /\ ev[i].step = ev[i+1].step => Rank(ev[i].type) <= Rank(ev[i+1].type)
  /\ \A k \in StepsToCompare :
       CallbackDone(k) =>
         /\ Cardinality(StepEventsAt(k, "text")) = (IF steps[k].text # "" THEN 1 ELSE 0)
         /\ Cardinality(StepEventsAt(k, "calling")) = Len(steps[k].toolCalls)
         /\ Cardinality(StepEventsAt(k, "completed")) = Len(steps[k].toolResults)
         /\ Len(steps[k].toolResults) = Len(steps[k].toolCalls)

\* a completed step with text and two invocations, followed by another step
C2_Witness ==
  \E k \in 1..Len(steps) :
    /\ k < Len(steps)
    /\ CallbackDone(Len(steps))
    /\ steps[k].text # ""
    /\ Len(steps[k].toolCalls) = 2
    /\ Len(steps[Len(steps)].toolCalls) = 1

IsPrefix(s, t) == Len(s) <= Len(t) /\ SubSeq(t, 1, Len(s)) = s

C3_ErrorState ==
  /\ Cardinality(OfType("error")) <= 1
  /\ chatError = "none" => OfType("error") = {}
  /\ (chatError # "none" /\ chatPc \in {"done", "end", "closed"}) =>
        Cardinality(OfType("error")) = 1
  /\ \A i \in OfType("error") :
       /\ i < Len(sink) => sink[i+1].type = "DONE"
       /\ \A j \in (i+1)..Len(sink) : sink[j].type \notin {"text", "summary", "error"}

\* C3: an exception in the chat loop yields exactly one error event,
\* immediately followed by the terminal marker, with no text or summary
\* event after it; the events written before it stay.
C3_SingleErrorEvent ==
  /\ []C3_ErrorState
  /\ [][IsPrefix(sink, sink')]_vars

\* a tool threw in the third step: the events of two steps, then the error
C3_Witness ==
  /\ chatPc = "closed"
  /\ chatError = "tool"
  /\ Len(steps) = 3
  /\ OfType("completed") # {}
  /\ OfType("error") = {Len(sink) - 2}

\* C4: every chat turn eventually writes the terminal marker and closes the
\* sink.
C4_TurnTerminates ==
  <>(/\ chatPc = "closed"
     /\ Len(sink) >= 2
     /\ sink[Len(sink)].type = "EOF"
     /\ sink[Len(sink) - 1].type = "DONE")

\* a turn closed after the provider requested tools in every step up to the
\* step ceiling
C4_Witness ==
  /\ chatPc = "closed"
  /\ chatError = "none"
  /\ Len(steps) = ChatMaxSteps
  /\ \A k \in 1..Len(steps) : Len(steps[k].toolCalls) > 0

FsTools == FallbackTools \cup DynamicTools
ServerDown == ~(initialized /\ fsStatus = "connected" /\ serverUp)

\* C5: a filesystem tool run while its server is disconnected or unreachable
\* returns a success:false payload and does not throw, and the turn that
\* called it still ends with the terminal marker.
C5_ToolFailureIsolated ==
  (ServerDown /\ tools \subseteq FsTools) =>
    /\ chatError # "tool"
    /\ \A k \in 1..Len(steps) : \A i \in 1..Len(steps[k].toolResults) :
         steps[k].toolResults[i].result = FailurePayload
    /\ chatPc = "closed" => OfType("DONE") # {}

\* a turn that ran to its normal end after a tool returned a failure payload
C5_Witness ==
  /\ ServerDown /\ tools \subseteq FsTools
  /\ chatPc = "closed"
  /\ chatError = "none"
  /\ Len(steps) >= 2
  /\ \E i \in OfType("completed") : sink[i].data = FailurePayload

(***************************************************************************)
(* Single-Agent Executor, Orchestrator and the agent tools                 *)
(***************************************************************************)
\* the number of delegateToAgent invocations among the tool calls of a step
DelegateCalls(calls) ==
  Cardinality({i \in 1..Len(calls) : calls[i].toolName = "delegateToAgent"})

\* planResult.toolCalls filtered to delegateToAgent and mapped to the args
Delegations_NoFilter(calls) ==
  [i \in 1..Len(calls) |-> calls[i].args]

Delegations(calls) ==
  LET IsDelegation(c) == c.toolName = "delegateToAgent"
      ds == SelectSeq(calls, IsDelegation)
  IN  [i \in 1..Len(ds) |-> ds[i].args]

\* a task of the plan; index counts from 0 as in delegations.map
NewTask_IdFromIndex(d, index) ==
  [id |-> "task-" \o ToString(index), description |-> d.task, assignedAgent |-> d.agentName,
   status |-> "pending", result |-> NoResult]

NewTask(d, index) ==
  [id |-> "task-" \o ToString(index + 1), description |-> d.task, assignedAgent |-> d.agentName,
   status |-> "pending", result |-> NoResult]

\* delegations.find(d => d.agentName === agentName): the first match
FindDelegation(agentName) ==
  LET hits == {i \in 1..Len(delegations) : delegations[i].agentName = agentName}
  IN  delegations[CHOOSE i \in hits : \A j \in hits : i <= j]

\* the task the for-of loop handles in its idx-th iteration
LoopTask_Reversed(idx) == Len(tasks) + 1 - idx

LoopTask(idx) == idx

\* task.status = 'in-progress'
StartedTask_StillPending(task) == task

StartedTask(task) == [task EXCEPT !.status = "in-progress"]

\* task.status = result.success ? 'completed' : 'failed'; task.result = result
FinishedTask_AlwaysCompleted(task, result) ==
  [task EXCEPT !.status = "completed", !.result = result]

FinishedTask(task, result) ==
  [task EXCEPT !.status = IF result.success THEN "completed" ELSE "failed",
               !.result = result]

\* executeAgent up to its first suspension: an unknown agent is answered at
\* once, otherwise the provider call starts
ExecuteAgentStart_NoLookup(agentName, task, context) ==
  /\ execLog' = Append(execLog, [agentName |-> agentName, task |-> task, context |-> context])
  /\ providerCalls' = 0
  /\ agentStep' = 0
  /\ agentResult' = NoResult
  /\ orchPc' = "agentRun"

ExecuteAgentStart(agentName, task, context) ==
  /\ execLog' = Append(execLog, [agentName |-> agentName, task |-> task, context |-> context])
  /\ providerCalls' = 0
  /\ agentStep' = 0
  /\ IF agentName \notin AgentNames
     THEN agentResult' = NotFoundResult(agentName) /\ orchPc' = "agentDone"
     ELSE agentResult' = NoResult /\ orchPc' = "agentRun"

\* callAgent.execute
StartCallAgent ==
  /\ orchPc = "idle"
  /\ \E a \in AgentNames, ta \in TaskArgs :
       /\ request' = [agentName |-> a, task |-> ta.task, context |-> ta.context]
       /\ activeAgentInfo' = [name |-> DisplayName(a), status |-> "working", task |-> ta.task]
       /\ ExecuteAgentStart(a, ta.task, ta.context)
  /\ entry' = "callAgent"
  /\ UNCHANGED <<planStep, planCalls, planDelegated, delegations, tasks, taskIdx, results, toolOutcome,
                 mcpVars, chatVars, extraVars>>

\* collaborativeTask.execute up to the planning call of orchestrate
StartCollaborativeTask ==
  /\ orchPc = "idle"
  /\ \E ta \in TaskArgs :
       /\ request' = [agentName |-> "", task |-> ta.task, context |-> ""]
       /\ activeAgentInfo' = [name |-> "Orchestrator", status |-> "coordinating", task |-> ta.task]
  /\ entry' = "collaborativeTask"
  /\ orchPc' = "planning"
  /\ UNCHANGED <<planStep, planCalls, planDelegated, delegations, tasks, taskIdx, results, agentStep,
                 agentResult, execLog, providerCalls, toolOutcome, mcpVars, chatVars, extraVars>>

\* one step of the planning generateText: the provider fails (orchestrate has
\* no try around it), or requests tool calls, which are executed
PlanStep ==
  /\ orchPc = "planning"
  /\ \/ /\ orchPc' = "planFailed"
        /\ UNCHANGED <<planStep, planCalls, planDelegated>>
     \/ \E n \in 0..MaxPlanCalls : \E calls \in [1..n -> PlanCallKinds] :
          /\ planDelegated + DelegateCalls(planCalls) + DelegateCalls(calls)
               <= MaxPlanCalls
          /\ planCalls' = calls
          /\ planDelegated' = planDelegated + DelegateCalls(planCalls)
          /\ planStep' = planStep + 1
          /\ orchPc' = IF ContinueAfter(PlanMaxSteps, planStep + 1,
                                        [toolCalls |-> calls, toolResults |-> calls])
                       THEN "planning" ELSE "extract"
  /\ UNCHANGED <<entry, request, delegations, tasks, taskIdx, results, agentStep,
                 agentResult, execLog, providerCalls, activeAgentInfo, toolOutcome,
                 mcpVars, chatVars, extraVars>>

\* the planning call returned: extract the delegations, create the tasks
ExtractPlan ==
  /\ orchPc = "extract"
  /\ delegations' = Delegations(planCalls)
  /\ tasks' = [i \in 1..Len(Delegations(planCalls)) |-> NewTask(Delegations(planCalls)[i], i - 1)]
  /\ results' = <<>>
  /\ taskIdx' = 1
  /\ orchPc' = "loop"
  /\ UNCHANGED <<entry, request, planStep, planCalls, planDelegated, agentStep, agentResult, execLog,
                 providerCalls, activeAgentInfo, toolOutcome, mcpVars, chatVars, extraVars>>

\* one iteration of the for-of loop up to `await this.executeAgent(...)`
StartTask ==
  /\ orchPc = "loop"
  /\ taskIdx <= Len(tasks)
  /\ LET i    == LoopTask(taskIdx)
         task == tasks[i]
         d    == FindDelegation(task.assignedAgent)
     IN /\ tasks' = [tasks EXCEPT ![i] = StartedTask(task)]
        /\ ExecuteAgentStart(task.assignedAgent, d.task, d.context)
  /\ UNCHANGED <<entry, request, planStep, planCalls, planDelegated, delegations, taskIdx, results,
                 activeAgentInfo, toolOutcome, mcpVars, chatVars, extraVars>>

\* one step of executeAgent's generateText (inside its try): a failure
\* becomes a failed AgentResult, the last step a successful one
AgentProviderStep ==
  /\ orchPc = "agentRun"
  /\ providerCalls' = providerCalls + 1
  /\ LET agentName == Last(execLog).agentName
     IN \/ /\ agentResult' = FailedResult(agentName)
           /\ orchPc' = "agentDone"
           /\ UNCHANGED agentStep
        \/ \E n \in 0..1 :
           /\ agentStep' = agentStep + 1
           /\ IF ContinueAfter(AgentMaxSteps, agentStep + 1,
                               [toolCalls |-> [i \in 1..n |-> i], toolResults |-> [i \in 1..n |-> i]])
              THEN UNCHANGED <<agentResult, orchPc>>
              ELSE agentResult' = SuccessResult(agentName) /\ orchPc' = "agentDone"
  /\ UNCHANGED <<entry, request, planStep, planCalls, planDelegated, delegations, tasks, taskIdx, results,
                 execLog, activeAgentInfo, toolOutcome, mcpVars, chatVars, extraVars>>

\* the for-of loop goes on with the next task whatever the result was
NextTaskIdx_BreakOnFailure(idx, result) ==
  IF result.success THEN idx + 1 ELSE Len(tasks) + 1

NextTaskIdx(idx, result) == idx + 1

\* executeAgent returned inside orchestrate: record the result, close the task
CompleteTask ==
  /\ orchPc = "agentDone"
  /\ entry = "collaborativeTask"
  /\ LET i == LoopTask(taskIdx)
     IN tasks' = [tasks EXCEPT ![i] = FinishedTask(tasks[i], agentResult)]
  /\ results' = Append(results, agentResult)
  /\ taskIdx' = NextTaskIdx(taskIdx, agentResult)
  /\ orchPc' = "loop"
  /\ UNCHANGED <<entry, request, planStep, planCalls, planDelegated, delegations, agentStep, agentResult,
                 execLog, providerCalls, activeAgentInfo, toolOutcome, mcpVars, chatVars, extraVars>>

\* the summary orchestrate composes: one section per result, in order
Summary_ResultOnly ==
  [i \in 1..Len(results) |->
     [heading |-> DisplayName(results[i].agentName), body |-> results[i].result]]

Summary ==
  [i \in 1..Len(results) |->
     [heading |-> DisplayName(results[i].agentName),
      body |-> IF results[i].success THEN results[i].result ELSE results[i].error]]

\* the loop is over: orchestrate returns and collaborativeTask returns its
\* payload
ReturnCollaborativeTask ==
  /\ orchPc = "loop"
  /\ taskIdx > Len(tasks)
  /\ activeAgentInfo' = [name |-> "Orchestrator", status |-> "completed", task |-> ""]
  /\ toolOutcome' = "returned"
  /\ orchPc' = "returned"
  /\ UNCHANGED <<entry, request, planStep, planCalls, planDelegated, delegations, tasks, taskIdx, results,
                 agentStep, agentResult, execLog, providerCalls, mcpVars, chatVars, extraVars>>

\* the planning call failed: orchestrate rejects, collaborativeTask's catch
\* sets the status and throws the error again
RethrowPlanFailure ==
  /\ orchPc = "planFailed"
  /\ activeAgentInfo' = [name |-> "Orchestrator", status |-> "error", task |-> ""]
  /\ toolOutcome' = "thrown"
  /\ orchPc' = "thrown"
  /\ UNCHANGED <<entry, request, planStep, planCalls, planDelegated, delegations, tasks, taskIdx, results,
                 agentStep, agentResult, execLog, providerCalls, mcpVars, chatVars, extraVars>>

\* executeAgent returned inside callAgent: the handler returns the AgentResult
ReturnCallAgent ==
  /\ orchPc = "agentDone"
  /\ entry = "callAgent"
  /\ activeAgentInfo' = [name |-> DisplayName(request.agentName), status |-> "completed",
                         task |-> ""]
  /\ toolOutcome' = "returned"
  /\ orchPc' = "returned"
  /\ UNCHANGED <<entry, request, planStep, planCalls, planDelegated, delegations, tasks, taskIdx, results,
                 agentStep, agentResult, execLog, providerCalls, mcpVars, chatVars, extraVars>>

\* the names executeAgent is called with directly: the registered ones and
\* one that is not in agentConfigs
RequestedAgents == AgentNames \cup {"translator"}

\* agentExecutor.executeAgent(agentName, task, context) called directly
StartExecuteAgent ==
  /\ orchPc = "idle"
  /\ \E a \in RequestedAgents, ta \in TaskArgs :
       /\ request' = [agentName |-> a, task |-> ta.task, context |-> ta.context]
       /\ ExecuteAgentStart(a, ta.task, ta.context)
  /\ entry' = "executeAgent"
  /\ UNCHANGED <<planStep, planCalls, planDelegated, delegations, tasks, taskIdx, results,
                 activeAgentInfo, toolOutcome, mcpVars, chatVars, extraVars>>

\* the promise of a direct executeAgent call resolves with the AgentResult
ReturnExecuteAgent ==
  /\ orchPc = "agentDone"
  /\ entry = "executeAgent"
  /\ toolOutcome' = "returned"
  /\ orchPc' = "returned"
  /\ UNCHANGED <<entry, request, planStep, planCalls, planDelegated, delegations, tasks,
                 taskIdx, results, agentStep, agentResult, execLog, providerCalls,
                 activeAgentInfo, mcpVars, chatVars, extraVars>>

NextAgents ==
  \/ StartExecuteAgent
  \/ ReturnExecuteAgent
  \/ StartCallAgent
  \/ StartCollaborativeTask
  \/ PlanStep
  \/ ExtractPlan
  \/ StartTask
  \/ AgentProviderStep
  \/ CompleteTask
  \/ ReturnCollaborativeTask
  \/ RethrowPlanFailure
  \/ ReturnCallAgent

ChatIdle ==
  /\ tools = {}
  /\ chatPc = "idle"
  /\ steps = <<>>
  /\ sink = <<>>
  /\ chatError = "none"

InitAgents ==
  /\ initialized = TRUE
  /\ fsStatus = "connected"
  /\ serverUp = TRUE
  /\ ManagerSettled
  /\ ExtraIdle
  /\ ChatIdle
  /\ AgentIdle

Spec == InitAgents /\ [][NextAgents]_vars

(***************************************************************************)
(* Claims about the agent tools and the Orchestrator                       *)
(***************************************************************************)
FinalStatuses == {"completed", "failed"}

\* C6: the handlers of callAgent and collaborativeTask never throw across the
\* tool boundary; a provider failure is returned as a failure payload.
C6_AgentToolsNeverThrow ==
  toolOutcome # "thrown"

AgentsOf(seq) == [i \in 1..Len(seq) |-> seq[i].agentName]

\* C7: the tasks run one at a time in the order of the delegations: the
\* executor calls so far are for the first tasks of the list, in list order,
\* a task starts only after all earlier ones are final, at most one task is
\* in-progress, and the task list has the order of the delegations.
C7_SequentialInOrder ==
  entry = "collaborativeTask" =>
    /\ Cardinality({i \in 1..Len(tasks) : tasks[i].status = "in-progress"}) <= 1
    /\ Len(tasks) = Len(delegations)
    /\ \A i \in 1..Len(tasks) : tasks[i].assignedAgent = delegations[i].agentName
    /\ Len(execLog) <= Len(tasks)
    /\ \A k \in 1..Len(execLog) : execLog[k].agentName = delegations[k].agentName
    /\ \A i \in 1..Len(tasks) :
         /\ tasks[i].status # "pending" <=> i <= Len(execLog)
         /\ tasks[i].status # "pending" =>
              \A j \in 1..(i-1) : tasks[j].status \in FinalStatuses

\* delegations to B, A, B were executed as B, A, B
C7_Witness ==
  /\ orchPc = "returned"
  /\ entry = "collaborativeTask"
  /\ AgentsOf(delegations) = <<"refactorer", "code-analyzer", "refactorer">>
  /\ AgentsOf(execLog) = <<"refactorer", "code-analyzer", "refactorer">>
  /\ [i \in 1..Len(tasks) |-> tasks[i].assignedAgent]
       = <<"refactorer", "code-analyzer", "refactorer">>

\* C8: the k-th task is executed with the task text and context of the k-th
\* delegation, and its description is the task text the executor received.
C8_TaskRunsOwnDelegation ==
  entry = "collaborativeTask" =>
    \A k \in 1..Len(execLog) :
      /\ k <= Len(delegations)
      /\ execLog[k].task = delegations[k].task
      /\ execLog[k].context = delegations[k].context
      /\ tasks[k].description = execLog[k].task

StatusStep(from, to) ==
  \/ to = from
  \/ from = "pending" /\ to = "in-progress"
  \/ from = "in-progress" /\ to \in FinalStatuses

C9_ResultOnlyWhenFinal ==
  \A i \in 1..Len(tasks) :
    /\ tasks[i].status \in {"pending", "in-progress"} \cup FinalStatuses
    /\ tasks[i].result # NoResult => tasks[i].status \in FinalStatuses

\* C9: a task's status only moves pending -> in-progress -> completed|failed,
\* and a task carries a result only in a final status.
C9_StatusMonotonic ==
  /\ []C9_ResultOnlyWhenFinal
  /\ [][ /\ tasks = <<>> =>
              \A i \in 1..Len(tasks') : tasks'[i].status = "pending"
         /\ tasks # <<>> =>
              /\ Len(tasks') = Len(tasks)
              /\ \A i \in 1..Len(tasks) : StatusStep(tasks[i].status, tasks'[i].status) ]_vars

\* a run in which one task completed, one failed and one is still pending
C9_Witness ==
  /\ Len(tasks) = 3
  /\ tasks[1].status = "completed"
  /\ tasks[2].status = "failed"
  /\ tasks[3].status = "pending"

\* C10: when orchestrate returns every task is final, completed exactly when
\* its AgentResult succeeded, with that result attached.
C10_FinalStatusFromSuccess ==
  (entry = "collaborativeTask" /\ orchPc = "returned") =>
    /\ Len(results) = Len(tasks)
    /\ \A i \in 1..Len(tasks) :
         /\ tasks[i].status \in FinalStatuses
         /\ tasks[i].result # NoResult
         /\ tasks[i].status = "completed" <=> tasks[i].result.success

\* orchestrate returned with a completed and a failed task
C10_Witness ==
  /\ entry = "collaborativeTask"
  /\ orchPc = "returned"
  /\ \E i, j \in 1..Len(tasks) :
       /\ tasks[i].status = "completed" /\ tasks[i].result.success
       /\ tasks[j].status = "failed" /\ ~tasks[j].result.success

\* C11: a failed specialist is not fatal to the orchestration: exactly the
\* tasks whose result failed are marked failed, the loop goes on with the next
\* task, no exception leaves orchestrate once the tasks run, and orchestrate
\* returns with one AgentResult per task.
C11_FailureNotFatal ==
  entry = "collaborativeTask" =>
    /\ \A i \in 1..Len(tasks) :
         tasks[i].status = "failed" <=> (i <= Len(results) /\ ~results[i].success)
    /\ execLog # <<>> => (orchPc \notin {"planFailed", "thrown"} /\ toolOutcome # "thrown")
    /\ orchPc = "loop" => taskIdx = Len(results) + 1
    /\ orchPc = "returned" =>
         /\ toolOutcome = "returned"
         /\ Len(results) = Len(tasks)
         /\ Len(execLog) = Len(tasks)
         /\ \A i \in 1..Len(tasks) : results[i].agentName = tasks[i].assignedAgent

\* the provider failed in the first of three tasks; the other two ran and
\* completed, and orchestrate returned three results
C11_Witness ==
  /\ entry = "collaborativeTask"
  /\ orchPc = "returned"
  /\ Len(tasks) = 3
  /\ [i \in 1..Len(results) |-> results[i].success] = <<FALSE, TRUE, TRUE>>
  /\ tasks[1].status = "failed"
  /\ tasks[1].result = FailedResult(tasks[1].assignedAgent)
  /\ Len(execLog) = 3

\* the delegateToAgent invocations of the whole planning call
DelegationsMade == planDelegated + DelegateCalls(planCalls)

PlanExtracted == orchPc \in {"loop", "agentRun", "agentDone", "returned"}

\* C12: the task list has one task per delegateToAgent invocation made in
\* any step of the planning call, in invocation order, and no task for an
\* invocation of another tool.
C12_TasksFromAllDelegations ==
  (entry = "collaborativeTask" /\ PlanExtracted) =>
    /\ Len(tasks) = DelegationsMade
    /\ Len(delegations) = DelegationsMade
    /\ \A i \in 1..Len(tasks) : tasks[i].assignedAgent \in AgentNames

\* C13: a planning call without any delegateToAgent invocation gives an
\* empty task list, an empty result list and a summary without agent section;
\* the Single-Agent Executor is not invoked and orchestrate returns normally.
C13_NoDelegationNoWork ==
  (entry = "collaborativeTask" /\ PlanExtracted /\ DelegationsMade = 0) =>
    /\ tasks = <<>>
    /\ results = <<>>
    /\ Summary = <<>>
    /\ execLog = <<>>
    /\ providerCalls = 0
    /\ orchPc \in {"loop", "returned"}
    /\ orchPc = "loop" => taskIdx > Len(tasks)
    /\ orchPc = "returned" => toolOutcome = "returned"

\* orchestrate returned after a planning call that invoked only
\* aggregateResults, in every step up to the step ceiling
C13_Witness ==
  /\ entry = "collaborativeTask"
  /\ orchPc = "returned"
  /\ toolOutcome = "returned"
  /\ planStep = PlanMaxSteps
  /\ planCalls # <<>>
  /\ DelegationsMade = 0
  /\ tasks = <<>>

\* C14: the summary has one section per executed task, in execution order;
\* a section is headed by the display name of the task's agent (the raw name
\* of an agent that is not in the registry) and holds the result text of a
\* completed task and the error message of a failed one.
C14_SummaryPerTask ==
  entry = "collaborativeTask" =>
    /\ Len(Summary) <= Len(execLog)
    /\ orchPc = "returned" => (Len(Summary) = Len(tasks) /\ Len(Summary) = Len(execLog))
    /\ \A i \in 1..Len(Summary) :
         LET agent == execLog[i].agentName
         IN /\ tasks[i].assignedAgent = agent
            /\ Summary[i].heading =
                 (IF agent \in AgentNames THEN agentConfigs[agent] ELSE agent)
            /\ tasks[i].status = "completed" =>
                 (Summary[i].body = tasks[i].result.result /\ Summary[i].body # "")
            /\ tasks[i].status = "failed" =>
                 (Summary[i].body = tasks[i].result.error /\ Summary[i].body # "")
            /\ tasks[i].status \in FinalStatuses

\* the summary of a run whose first task failed and whose second completed
C14_Witness ==
  /\ entry = "collaborativeTask"
  /\ orchPc = "returned"
  /\ Summary = << [heading |-> "RefactoringExpert", body |-> "provider failed"],
                  [heading |-> "CodeAnalyst", body |-> "output"] >>

\* C15: executeAgent called with a name that is not in the registry returns
\* success:false with a non-empty error and an empty result, makes no
\* provider call and raises no exception.
C15_UnknownAgentRejected ==
  (execLog # <<>> /\ Last(execLog).agentName \notin AgentNames) =>
    /\ providerCalls = 0
    /\ agentStep = 0
    /\ orchPc \in {"agentDone", "returned"}
    /\ toolOutcome # "thrown"
    /\ agentResult.agentName = Last(execLog).agentName
    /\ ~agentResult.success
    /\ agentResult.error # ""
    /\ agentResult.result = ""

\* a direct call for the unregistered agent has returned
C15_Witness ==
  /\ entry = "executeAgent"
  /\ orchPc = "returned"
  /\ request.agentName = "translator"
  /\ agentResult = NotFoundResult("translator")
  /\ providerCalls = 0

\* C16: executeAgent never throws: when the provider call (or getting the
\* model) fails it returns success:false with an empty result and the
\* failure's message as error, and it returns success:true only after the
\* provider call completed.
C16_ExecutorNeverThrows ==
  (execLog # <<>> /\ Last(execLog).agentName \in AgentNames) =>
    /\ toolOutcome # "thrown"
    /\ orchPc \notin {"planFailed", "thrown"}
    /\ orchPc = "agentRun" => (agentResult = NoResult /\ providerCalls = agentStep)
    /\ orchPc # "agentRun" =>
         /\ agentResult.agentName = Last(execLog).agentName
         /\ providerCalls \in {agentStep, agentStep + 1}
         /\ providerCalls > agentStep =>
              /\ ~agentResult.success
              /\ agentResult.result = ""
              /\ agentResult.error = "provider failed"
         /\ agentResult.success <=> (providerCalls = agentStep /\ providerCalls >= 1)
         /\ agentResult.success => agentResult.error = ""

\* a direct call whose second provider call failed has returned
C16_Witness ==
  /\ entry = "executeAgent"
  /\ orchPc = "returned"
  /\ toolOutcome = "returned"
  /\ providerCalls = 2
  /\ agentStep = 1
  /\ agentResult = FailedResult("code-analyzer")

(***************************************************************************)
(* The three bounded loops together: a request is a chat turn or an agent  *)
(* request.                                                                *)
(***************************************************************************)
InitRequest == InitChat \/ InitAgents

NextRequest ==
  \/ NextChat
  \/ chatPc = "idle" /\ NextAgents

SpecRequest == InitRequest /\ [][NextRequest]_vars

\* the provider calls made so far by the chat loop and by the planning call
ChatProviderCalls == Len(steps) + (IF chatError = "provider" THEN 1 ELSE 0)
PlanProviderCalls == planStep + (IF orchPc \in {"planFailed", "thrown"} THEN 1 ELSE 0)

\* C17: the provider is called at most 3 times by the Single-Agent Executor,
\* 5 times by the planning call and 10 times by the chat loop; a loop whose
\* provider requested a tool in every step ends exactly at its ceiling, and
\* reaching the ceiling ends the loop normally, not with an error.
C17_StepBudget ==
  /\ ChatProviderCalls <= ChatMaxSteps
  /\ PlanProviderCalls <= PlanMaxSteps
  /\ providerCalls <= AgentMaxSteps
  /\ Len(steps) = ChatMaxSteps => chatPc # "model"
  /\ planStep = PlanMaxSteps => orchPc \notin {"planning", "planFailed", "thrown"}
  /\ agentStep = AgentMaxSteps => (orchPc # "agentRun" /\ agentResult.success)
  /\ (chatPc \in {"finish", "done", "end", "closed"} /\ chatError = "none") =>
       /\ OfType("error") = {}
       /\ Len(Last(steps).toolCalls) > 0 => Len(steps) = ChatMaxSteps
  /\ (PlanExtracted /\ planCalls # <<>>) => planStep = PlanMaxSteps

\* an orchestration whose planning call requested tools in all 5 steps and
\* whose specialist used all 3 steps, and returned a successful result
C17_Witness ==
  /\ entry = "collaborativeTask"
  /\ planStep = PlanMaxSteps
  /\ planCalls # <<>>
  /\ orchPc = "agentDone"
  /\ agentStep = AgentMaxSteps
  /\ providerCalls = AgentMaxSteps
  /\ agentResult.success

(***************************************************************************)
(* Claims about the end of a chat turn                                     *)
(***************************************************************************)
\* what a client that appends the text of every text event ends up with
ClientText ==
  LET IsText(ev) == ev.type = "text"
      evs == SelectSeq(sink, IsText)
  IN  [i \in 1..Len(evs) |-> evs[i].data]

\* the texts the provider produced, step by step
StepTexts ==
  LET HasText(st) == st.text # ""
      sts == SelectSeq(steps, HasText)
  IN  [i \in 1..Len(sts) |-> sts[i].text]

TurnSucceeded == chatPc = "closed" /\ chatError = "none"

\* C18: in a successful turn the text of every step is in exactly one text
\* event (the final text is not written again when a step's event carried
\* it), so the client's concatenation is the concatenation of the step texts.
C18_TextWrittenOnce ==
  TurnSucceeded =>
    /\ ClientText = StepTexts
    /\ Cardinality(OfType("text")) = TextSteps

\* entry e of a summary pairs the name of an invocation of the turn with the
\* result that has the invocation's id
PairsAnInvocation(e) ==
  \E k \in 1..Len(steps) : \E c \in 1..Len(steps[k].toolCalls) :
    /\ e.name = steps[k].toolCalls[c].toolName
    /\ \E r \in 1..Len(steps[k].toolResults) :
         /\ steps[k].toolResults[r].toolCallId = steps[k].toolCalls[c].toolCallId
         /\ e.result = steps[k].toolResults[r].result

\* C19: a successful turn writes a tool-call summary event iff some step of
\* the turn invoked a tool; it writes it once, after every text event and
\* right before the terminal marker, and every entry pairs an invocation's
\* name with the result of the same invocation id.
C19_SummaryIffInvoked ==
  TurnSucceeded =>
    /\ (OfType("summary") # {}) <=> (CallsSoFar > 0)
    /\ Cardinality(OfType("summary")) <= 1
    /\ \A i \in OfType("summary") :
         /\ i < Len(sink) /\ sink[i+1].type = "DONE"
         /\ \A j \in OfType("text") : j < i
         /\ \A n \in 1..Len(sink[i].entries) : PairsAnInvocation(sink[i].entries[n])

(***************************************************************************)
(* Tool-server manager: initializeMCP, MCPClientManager.initialize / close *)
(***************************************************************************)
otherVars == <<chatPc, steps, sink, chatError, agentVars, extraVars>>

\* initializeMCP up to the connection attempt of mcpClientManager.initialize:
\* an initialized manager skips the connection
InitializeMCP ==
  /\ mcpPc = "idle"
  /\ IF initialized
     THEN mcpPc' = "initReturned" /\ connectOutcome' = "skipped"
     ELSE /\ openClients < MaxOpenClients
          /\ mcpPc' = "connecting" /\ connectOutcome' = "pending"
  /\ UNCHANGED <<initialized, fsStatus, serverUp, mcpTools, openClients, tools, otherVars>>

\* initializeFilesystemServer: connect and list the tools; on success the
\* source is 'connected' and initialize sets initialized, on failure the
\* source is 'error' and initialize swallows the exception
InitializeFilesystemServer ==
  /\ mcpPc = "connecting"
  /\ IF serverUp
     THEN /\ fsStatus' = "connected"
          /\ initialized' = TRUE
          /\ connectOutcome' = "connected"
          /\ openClients' = openClients + 1
     ELSE /\ fsStatus' = "error"
          /\ connectOutcome' = "failed"
          /\ UNCHANGED <<initialized, openClients>>
  /\ mcpPc' = "initReturned"
  /\ UNCHANGED <<serverUp, mcpTools, tools, otherVars>>

\* const mcpToolsFromServer = await getAllMCPTools()
LoadTools ==
  /\ mcpPc = "initReturned"
  /\ mcpTools' = GetAllMCPTools
  /\ mcpPc' = "toolsLoaded"
  /\ UNCHANGED <<initialized, fsStatus, serverUp, connectOutcome, openClients, tools, otherVars>>

\* allTools = {...mcpToolsFromServer, ...skills, ...createAgentTools()}
BuildAllTools ==
  /\ mcpPc = "toolsLoaded"
  /\ tools' = mcpTools \cup SkillTools \cup AgentTools
  /\ mcpPc' = "idle"
  /\ UNCHANGED <<initialized, fsStatus, serverUp, connectOutcome, mcpTools, openClients, otherVars>>

\* MCPClientManager.close, which a caller or a signal handler may run at any
\* point of the flow above: a connected source is closed (its close may
\* throw, which is logged and leaves the status), initialized is reset
Close_KeepsInitialized ==
  /\ \/ /\ fsStatus = "connected"
        /\ fsStatus' = "disconnected"
        /\ openClients' = openClients - 1
     \/ UNCHANGED <<fsStatus, openClients>>
  /\ UNCHANGED <<initialized, serverUp, mcpPc, connectOutcome, mcpTools, tools, otherVars>>

Close ==
  /\ \/ /\ fsStatus = "connected"
        /\ fsStatus' = "disconnected"
        /\ openClients' = openClients - 1
     \/ UNCHANGED <<fsStatus, openClients>>
  /\ initialized' = FALSE
  /\ UNCHANGED <<serverUp, mcpPc, connectOutcome, mcpTools, tools, otherVars>>

\* the remote tool server stops or starts answering
ServerFails ==
  /\ serverUp
  /\ serverUp' = FALSE
  /\ UNCHANGED <<initialized, fsStatus, mcpPc, connectOutcome, mcpTools, openClients, tools, otherVars>>

ServerRecovers ==
  /\ ~serverUp
  /\ serverUp' = TRUE
  /\ UNCHANGED <<initialized, fsStatus, mcpPc, connectOutcome, mcpTools, openClients, tools, otherVars>>

NextMcp ==
  \/ InitializeMCP
  \/ InitializeFilesystemServer
  \/ LoadTools
  \/ BuildAllTools
  \/ Close
  \/ ServerFails
  \/ ServerRecovers

\* the process at start: nothing connected, no registry yet
InitMcp ==
  /\ initialized = FALSE
  /\ fsStatus = "none"
  /\ serverUp \in BOOLEAN
  /\ mcpPc = "idle"
  /\ connectOutcome = "none"
  /\ mcpTools = {}
  /\ openClients = 0
  /\ ExtraIdle
  /\ ChatIdle
  /\ AgentIdle

SpecMcp == InitMcp /\ [][NextMcp]_vars

\* C20: when the tool server is unreachable at connect time, initialize
\* returns normally with isInitialized() false and the source in status
\* 'error'; getAllMCPTools then returns exactly the fallback tools, and the
\* merged registry is built from them.
C20_ConnectFailureDegrades ==
  connectOutcome = "failed" =>
    /\ ~initialized
    /\ fsStatus = "error"
    /\ GetAllMCPTools = FallbackTools
    /\ mcpPc \in {"initReturned", "toolsLoaded", "idle"}
    /\ mcpPc \in {"toolsLoaded", "idle"} => mcpTools = FallbackTools
    /\ mcpPc = "idle" => tools = FallbackTools \cup SkillTools \cup AgentTools

\* the startup finished after a failed connection: the registry holds the
\* fallback, skill and agent tools and no dynamic tool
C20_Witness ==
  /\ connectOutcome = "failed"
  /\ mcpPc = "idle"
  /\ ~initialized
  /\ fsStatus = "error"
  /\ mcpTools = FallbackTools
  /\ tools = {"readFile", "readSkill", "collaborativeTask"}

(***************************************************************************)
(* Concurrent agent requests and the Active-Agent Status slot              *)
(***************************************************************************)
agentRest == <<entry, request, orchPc, planStep, planCalls, planDelegated, delegations,
               tasks, taskIdx, results, agentStep, agentResult, execLog, providerCalls,
               toolOutcome>>

\* the handlers that write activeAgentInfo: the two agent tools and the two
\* routes
RequestKinds == {"callAgent", "collaborativeTask", "agentRoute", "collaborateRoute"}

IsOrchestration(kind) == kind \in {"collaborativeTask", "collaborateRoute"}

\* the arguments a handler can be called with: callAgent's agentName is a
\* z.enum of the registry, the route takes any name; the route of a
\* collaboration may lack the task
RequestArgs(kind) ==
  IF kind = "callAgent" THEN {[agent |-> a, task |-> "t1"] : a \in AgentNames}
  ELSE IF kind = "agentRoute" THEN {[agent |-> a, task |-> "t1"] : a \in RequestedAgents}
  ELSE IF kind = "collaborativeTask" THEN {[agent |-> "", task |-> "t1"]}
  ELSE {[agent |-> "", task |-> "t1"], [agent |-> "", task |-> ""]}

\* the 404 of an unknown agent and the 400 of a missing task, answered before
\* any write
Rejected(kind, args) ==
  \/ kind = "agentRoute" /\ args.agent \notin AgentNames
  \/ kind = "collaborateRoute" /\ args.task = ""

SlotName(kind, agent) == IF IsOrchestration(kind) THEN "Orchestrator" ELSE DisplayName(agent)

StartStatus(kind) == IF IsOrchestration(kind) THEN "coordinating" ELSE "working"

\* the status written when the awaited call returned (ok) or threw
EndStatus_KeptOnError(kind, ok) == IF ok THEN "completed" ELSE StartStatus(kind)

EndStatus(kind, ok) == IF ok THEN "completed" ELSE "error"

StartValue(kind, args) ==
  [name |-> SlotName(kind, args.agent), status |-> StartStatus(kind), task |-> args.task]

\* the final objects have no task field
EndValue(kind, args, ok) ==
  [name |-> SlotName(kind, args.agent), status |-> EndStatus(kind, ok), task |-> ""]

\* activeAgentInfo = {...}: the slot is replaced by the new object
WriteSlot_Merge(old, new) ==
  [name |-> new.name, status |-> new.status,
   task |-> IF new.task = "" THEN old.task ELSE new.task]

WriteSlot(old, new) == new

\* how the handler ends: the tools return the result or throw, the routes
\* answer 200 or 500
RequestOutcome(kind, ok) ==
  IF kind \in {"callAgent", "collaborativeTask"}
  THEN (IF ok THEN "returned" ELSE "thrown")
  ELSE (IF ok THEN "responded" ELSE "failed")

\* a handler starts: it is rejected, or writes its first status and awaits
\* executeAgent / orchestrate
ReceiveRequest(r) ==
  /\ reqs[r].pc = "new"
  /\ \E kind \in RequestKinds : \E args \in RequestArgs(kind) :
       IF Rejected(kind, args)
       THEN /\ reqs' = [reqs EXCEPT ![r] = [kind |-> kind, agent |-> args.agent,
                                            task |-> args.task, pc |-> "done",
                                            outcome |-> "rejected"]]
            /\ UNCHANGED <<activeAgentInfo, writes>>
       ELSE /\ reqs' = [reqs EXCEPT ![r] = [kind |-> kind, agent |-> args.agent,
                                            task |-> args.task, pc |-> "running",
                                            outcome |-> "none"]]
            /\ activeAgentInfo' = WriteSlot(activeAgentInfo, StartValue(kind, args))
            /\ writes' = Append(writes, StartValue(kind, args))
  /\ UNCHANGED <<agentRest, mcpVars, chatVars, libVars, initVars>>

\* the awaited call is over: executeAgent always returns, orchestrate returns
\* or throws; the handler writes its final status and ends
CompleteRequest(r) ==
  /\ reqs[r].pc = "running"
  /\ \E ok \in BOOLEAN :
       /\ ~ok => IsOrchestration(reqs[r].kind)
       /\ LET value == EndValue(reqs[r].kind, reqs[r], ok)
          IN /\ activeAgentInfo' = WriteSlot(activeAgentInfo, value)
             /\ writes' = Append(writes, value)
       /\ reqs' = [reqs EXCEPT ![r].pc = "done",
                               ![r].outcome = RequestOutcome(reqs[r].kind, ok)]
  /\ UNCHANGED <<agentRest, mcpVars, chatVars, libVars, initVars>>

NextSlot ==
  \/ \E r \in Reqs : ReceiveRequest(r)
  \/ \E r \in Reqs : CompleteRequest(r)

SpecSlot == InitAgents /\ [][NextSlot]_vars

NullSlot == [name |-> "", status |-> "null", task |-> ""]

\* the values request r can write: its first status, or one of its final ones
ValuesOf(r) ==
  {[name |-> SlotName(reqs[r].kind, reqs[r].agent), status |-> st, task |-> t] :
     st \in {"working", "coordinating", "completed", "error"}, t \in {reqs[r].task, ""}}

WritesOf(r) ==
  IF reqs[r].outcome = "rejected" \/ reqs[r].pc = "new" THEN 0
  ELSE IF reqs[r].pc = "running" THEN 1 ELSE 2

\* C21: the slot always holds the whole value of the most recent write of
\* some request, under every interleaving of the requests' writes; every
\* request makes its writes and ends as its own arguments and its own awaited
\* call decide, whatever the slot holds.
C21_LastWriterWins ==
  /\ activeAgentInfo = (IF writes = <<>> THEN NullSlot ELSE Last(writes))
  /\ \A i \in 1..Len(writes) : \E r \in Reqs : writes[i] \in ValuesOf(r)
  /\ Len(writes) = SumSeq([r \in Reqs |-> WritesOf(r)])
  /\ \A r \in Reqs :
       /\ reqs[r].pc = "done" =>
            reqs[r].outcome \in
              (IF Rejected(reqs[r].kind, reqs[r]) THEN {"rejected"}
               ELSE {RequestOutcome(reqs[r].kind, TRUE)}
                    \cup (IF IsOrchestration(reqs[r].kind)
                          THEN {RequestOutcome(reqs[r].kind, FALSE)} ELSE {}))
       /\ reqs[r].pc # "done" => reqs[r].outcome = "none"

\* two overlapping requests: callAgent wrote 'working', collaborativeTask
\* wrote 'coordinating' over it, then callAgent finished, then the
\* orchestration failed
C21_Witness ==
  /\ Len(writes) = 4
  /\ [i \in 1..4 |-> writes[i].status] = <<"working", "coordinating", "completed", "error">>
  /\ writes[3].name = writes[1].name
  /\ writes[2].task = "t1"
  /\ activeAgentInfo = [name |-> "Orchestrator", status |-> "error", task |-> ""]
  /\ \E r \in Reqs : reqs[r].outcome = "thrown"

NoRequestInFlight == \A r \in Reqs : reqs[r].pc # "running"

NoProps == [k \in {} |-> 0]

\* an external schema: type ("absent" when the field is missing), items
\* (<<>> when missing), properties (hasProps is the truthiness of the
\* field), required ({} when missing)
Schema(type, items, hasProps, props, required) ==
  [type |-> type, items |-> items, hasProps |-> hasProps, props |-> props,
   required |-> required]

LeafSchema(type) == Schema(type, <<>>, FALSE, NoProps, {})

SchemaTypes == {"string", "number", "integer", "boolean", "array", "object", "null", "absent"}

Keys == {"path", "limit"}

\* schemas with only a type, array schemas with items, object schemas (with
\* and without a type) over the keys; inner are the schemas of properties and
\* of array elements
Schemas ==
  LET inner == {LeafSchema(t) : t \in {"string", "integer", "boolean", "null", "absent"}}
  IN  {LeafSchema(t) : t \in SchemaTypes}
      \cup {Schema("array", <<i>>, FALSE, NoProps, {}) : i \in inner}
      \cup UNION {{Schema(t, <<>>, TRUE, props, req) :
                     props \in [ks -> inner], req \in SUBSET Keys, t \in {"object", "absent"}} :
                  ks \in SUBSET Keys}

\* a local validator (zod): kind, optional flag, element validator of an
\* array (a one-element sequence), shape of an object
Zod(kind, element, shape) ==
  [kind |-> kind, optional |-> FALSE, element |-> element, shape |-> shape]

Optional(zod) == [zod EXCEPT !.optional = TRUE]

\* the kind of validator a schema translates to, in the order of the ifs
ZodKind_UnknownAsString(schema) ==
  IF schema.type = "string" THEN "string"
  ELSE IF schema.type \in {"number", "integer"} THEN "number"
  ELSE IF schema.type = "boolean" THEN "boolean"
  ELSE IF schema.type = "array" THEN "array"
  ELSE IF schema.type = "object" \/ schema.hasProps THEN "object"
  ELSE "string"

ZodKind(schema) ==
  IF schema.type = "string" THEN "string"
  ELSE IF schema.type \in {"number", "integer"} THEN "number"
  ELSE IF schema.type = "boolean" THEN "boolean"
  ELSE IF schema.type = "array" THEN "array"
  ELSE IF schema.type = "object" \/ schema.hasProps THEN "object"
  ELSE "any"

RECURSIVE jsonSchemaToZod(_)
jsonSchemaToZod(schema) ==
  LET kind == ZodKind(schema)
  IN  IF kind = "array"
      THEN Zod("array",
               <<jsonSchemaToZod(IF schema.items = <<>> THEN LeafSchema("string")
                                 ELSE schema.items[1])>>,
               NoProps)
      ELSE IF kind = "object"
      THEN Zod("object", <<>>,
               [k \in DOMAIN schema.props |->
                  IF k \in schema.required THEN jsonSchemaToZod(schema.props[k])
                  ELSE Optional(jsonSchemaToZod(schema.props[k]))])
      ELSE Zod(kind, <<>>, NoProps)

\* a payload value; "undefined" is the value of a missing key
Value(kind, elems, fields) == [kind |-> kind, elems |-> elems, fields |-> fields]

Scalar(kind) == Value(kind, <<>>, NoProps)

Payloads ==
  LET scalars == {Scalar(k) : k \in {"string", "number", "null"}}
  IN  {Scalar(k) : k \in {"string", "number", "boolean", "null"}}
      \cup UNION {{Value("array", es, NoProps) : es \in [1..n -> scalars]} : n \in 0..MaxElems}
      \cup UNION {{Value("object", <<>>, fs) : fs \in [ks -> scalars]} : ks \in SUBSET Keys}

FieldOf(value, key) ==
  IF key \in DOMAIN value.fields THEN value.fields[key] ELSE Scalar("undefined")

\* zod's parse: does the validator accept the value
RECURSIVE Accepts(_, _)
Accepts(zod, value) ==
  IF zod.optional /\ value.kind = "undefined" THEN TRUE
  ELSE IF zod.kind = "any" THEN TRUE
  ELSE IF zod.kind = "array"
  THEN /\ value.kind = "array"
       /\ \A i \in 1..Len(value.elems) : Accepts(zod.element[1], value.elems[i])
  ELSE IF zod.kind = "object"
  THEN /\ value.kind = "object"
       /\ \A k \in DOMAIN zod.shape : Accepts(zod.shape[k], FieldOf(value, k))
  ELSE value.kind = zod.kind

(***************************************************************************)
(* getToolsAsAITools: the merged tool registry                             *)
(***************************************************************************)
\* the server names of the example configuration
SourceNames == {"filesystem", "git", "sqlite"}

SourceToolNames == {"read", "read_file"}

\* a client instance of the manager's map
Instance(name, status, toolNames) == [name |-> name, status |-> status, tools |-> toolNames]

\* the manager's map in insertion order: the keys are distinct
ClientMaps ==
  LET instances == {Instance(n, st, ts) : n \in SourceNames, st \in {"connected", "error"},
                                          ts \in SUBSET SourceToolNames}
  IN  {<<a>> : a \in instances}
      \cup {<<a, b>> : <<a, b>> \in {<<a, b>> \in instances \X instances : a.name # b.name}}

AIToolName_ToolOnly(clientName, toolName) == toolName

AIToolName(clientName, toolName) == clientName \o "_" \o toolName

\* aiTools after the loop over clients.entries(): a disconnected client is
\* skipped, a later assignment to the same key replaces the earlier one
GetToolsAsAITools(clients) ==
  LET connected == {i \in 1..Len(clients) : clients[i].status = "connected"}
      Writers(n) == {i \in connected : \E t \in clients[i].tools : AIToolName(clients[i].name, t) = n}
      LastWriter(n) == CHOOSE i \in Writers(n) : \A j \in Writers(n) : j <= i
      names == {AIToolName(clients[i].name, t) : <<i, t>> \in
                  {<<i, t>> \in connected \X SourceToolNames : t \in clients[i].tools}}
  IN  [n \in names |->
         LET i == LastWriter(n)
         IN  [client |-> clients[i].name,
              tool |-> CHOOSE t \in clients[i].tools : AIToolName(clients[i].name, t) = n]]

(***************************************************************************)
(* readSkill                                                               *)
(***************************************************************************)
\* a name is a sequence of characters; Absent is the missing argument
Absent == <<"undefined">>

\* the name from its first to its last character that is not a blank
Trim(name) ==
  LET kept == {i \in 1..Len(name) : name[i] # " "}
  IN  IF kept = {} THEN <<>>
      ELSE SubSeq(name, CHOOSE i \in kept : \A j \in kept : i <= j,
                        CHOOSE i \in kept : \A j \in kept : j <= i)

Skill(name) == [name |-> name, path |-> <<name, "SKILL.md">>]

SkillCatalogs == {<<>>, <<Skill(<<"p", "d", "f">>)>>, <<Skill(<<"p", "d", "f">>), Skill(<<"x">>)>>}

SkillNameArgs ==
  {Absent} \cup
  {l \o core \o r : l \in {<<>>, <<" ">>}, r \in {<<>>, <<" ">>},
                    core \in {<<>>, <<"p", "d", "f">>, <<"x">>, <<"p", " ", "f">>, <<"d", "o", "c">>}}

\* this.skills.find(s => s.name === name): the found skill, or none
GetSkill_FirstWhenUnknown(skills, name) ==
  LET found == {i \in 1..Len(skills) : skills[i].name = name}
  IN  IF found = {} THEN (IF skills = <<>> THEN <<>> ELSE <<skills[1]>>)
      ELSE <<skills[CHOOSE i \in found : \A j \in found : i <= j]>>

GetSkill(skills, name) ==
  LET found == {i \in 1..Len(skills) : skills[i].name = name}
  IN  IF found = {} THEN <<>>
      ELSE <<skills[CHOOSE i \in found : \A j \in found : i <= j]>>

SkillResult(success, error, available, name, content) ==
  [success |-> success, error |-> error, availableSkills |-> available,
   name |-> name, content |-> content]

\* the execute function of the readSkill tool: what it returns and the files
\* it read on the way
ReadSkill(skills, name, readable) ==
  LET availableSkills == [i \in 1..Len(skills) |-> skills[i].name]
  IN  IF name = Absent \/ name = <<>> \/ Trim(name) = <<>>
      THEN [result |-> SkillResult(FALSE, "name is required", availableSkills, <<>>, ""),
            filesRead |-> <<>>, threw |-> FALSE]
      ELSE LET skill == GetSkill(skills, Trim(name))
           IN  IF skill = <<>>
               THEN [result |-> SkillResult(FALSE, "skill not found", availableSkills, <<>>, ""),
                     filesRead |-> <<>>, threw |-> FALSE]
               ELSE [result |-> SkillResult(TRUE, "", <<>>, skill[1].name,
                                            IF readable THEN "content" ELSE "cannot read the skill"),
                     filesRead |-> <<skill[1].path>>, threw |-> FALSE]

(***************************************************************************)
(* normalizeMessages                                                       *)
(***************************************************************************)
\* a JSON text longer than this is cut
TruncateAt == 2000

\* a JSON text of 2048 characters
BigJson ==
  LET s16  == "{\"rows\":[0,1,2]}"
      s64  == s16 \o s16 \o s16 \o s16
      s256 == s64 \o s64 \o s64 \o s64
      s1k  == s256 \o s256 \o s256 \o s256
  IN  s1k \o s1k

Block(type, text, toolName, args, result) ==
  [type |-> type, text |-> text, toolName |-> toolName, args |-> args, result |-> result]

\* "" stands for a missing or empty text or tool name
Blocks ==
  LET NoArgs == [present |-> FALSE, json |-> ""]
      NoBlockResult == [kind |-> "other", text |-> "undefined"]
  IN
  { Block("text", "", "", NoArgs, NoBlockResult),
    Block("text", "looking it up", "", NoArgs, NoBlockResult),
    Block("tool-call", "", "getWeather", [present |-> TRUE, json |-> "{\"city\":\"Beijing\"}"], NoBlockResult),
    Block("tool-call", "", "", NoArgs, NoBlockResult),
    Block("tool-result", "", "getWeather", NoArgs, [kind |-> "string", text |-> "sunny"]),
    Block("tool-result", "", "", NoArgs, [kind |-> "object", text |-> BigJson]),
    Block("tool-result", "", "getWeather", NoArgs, [kind |-> "other", text |-> "25"]) }

Message(role, isString, text, blocks) ==
  [role |-> role, isString |-> isString, text |-> text, blocks |-> blocks]

StringMessages ==
  {Message(r, TRUE, "hello", <<>>) : r \in {"user", "assistant", "system", "tool"}}

AgentMessages ==
  StringMessages
  \cup {Message("assistant", FALSE, "", bs) : bs \in UNION {[1..n -> Blocks] : n \in 0..MaxElems}}
  \cup {Message("tool", FALSE, "", bs) : bs \in {<<b>> : b \in Blocks}}

\* conversations of up to two messages, one of them with string content
MessageLists ==
  {<<>>} \cup {<<a>> : a \in AgentMessages}
  \cup {<<a, b>> : a \in AgentMessages, b \in StringMessages}
  \cup {<<a, b>> : a \in StringMessages, b \in AgentMessages}

\* the texts are given in English
FormatToolCall(toolName, args) ==
  "[tool call: " \o toolName \o "]\nargs: " \o (IF args.present THEN args.json ELSE "{}")

FormatToolResult(toolName, result) ==
  LET resultStr ==
        IF result.kind = "string" THEN result.text
        ELSE IF result.kind = "object"
        THEN IF Len(result.text) > TruncateAt
             THEN SubSeq(result.text, 1, TruncateAt) \o "\n...(truncated)"
             ELSE result.text
        ELSE result.text
  IN  "[tool result: " \o toolName \o "]\n" \o resultStr

OrUnknown(toolName) == IF toolName = "" THEN "unknown" ELSE toolName

RECURSIVE Join(_, _)
Join(parts, sep) ==
  IF parts = <<>> THEN ""
  ELSE IF Len(parts) = 1 THEN parts[1]
  ELSE parts[1] \o sep \o Join(Tail(parts), sep)

\* the loop of flattenContent: the parts pushed for the blocks so far
RECURSIVE FlattenParts(_)
FlattenParts(blocks) ==
  IF blocks = <<>> THEN <<>>
  ELSE LET block == Head(blocks)
           pushed == IF block.type = "text" /\ block.text # "" THEN <<block.text>>
                     ELSE IF block.type = "tool-call"
                     THEN <<FormatToolCall(OrUnknown(block.toolName), block.args)>>
                     ELSE IF block.type = "tool-result"
                     THEN <<FormatToolResult(OrUnknown(block.toolName), block.result)>>
                     ELSE <<>>
       IN  pushed \o FlattenParts(Tail(blocks))

FlattenContent(message) ==
  IF message.isString THEN message.text ELSE Join(FlattenParts(message.blocks), "\n\n")

NormalizeRole_Kept(role) == role

NormalizeRole(role) == IF role = "tool" THEN "assistant" ELSE role

NormalizeMessage(message) ==
  [role |-> NormalizeRole(message.role), content |-> FlattenContent(message)]

NormalizeMessages(messages) == [i \in 1..Len(messages) |-> NormalizeMessage(messages[i])]

(***************************************************************************)
(* The library functions called on their own                               *)
(***************************************************************************)
LibCalls ==
  {[op |-> "jsonSchemaToZod", in |-> [schema |-> sc, payload |-> pl]] :
     sc \in Schemas, pl \in Payloads}
  \cup {[op |-> "getToolsAsAITools", in |-> [clients |-> cs]] : cs \in ClientMaps}
  \cup {[op |-> "readSkill", in |-> [skills |-> sk, name |-> n, readable |-> rd]] :
          sk \in SkillCatalogs, n \in SkillNameArgs, rd \in BOOLEAN}
  \cup {[op |-> "normalizeMessages", in |-> [messages |-> ms]] : ms \in MessageLists}

\* the translated validator is applied to the payload
CallJsonSchemaToZod ==
  /\ libPc = "called"
  /\ libOp = "jsonSchemaToZod"
  /\ libOut' = [zod |-> jsonSchemaToZod(libIn.schema),
                accepted |-> Accepts(jsonSchemaToZod(libIn.schema), libIn.payload)]
  /\ libPc' = "returned"
  /\ UNCHANGED <<libOp, libIn, slotVars, initVars, mcpVars, chatVars, agentVars>>

CallGetToolsAsAITools ==
  /\ libPc = "called"
  /\ libOp = "getToolsAsAITools"
  /\ libOut' = GetToolsAsAITools(libIn.clients)
  /\ libPc' = "returned"
  /\ UNCHANGED <<libOp, libIn, slotVars, initVars, mcpVars, chatVars, agentVars>>

CallReadSkill ==
  /\ libPc = "called"
  /\ libOp = "readSkill"
  /\ libOut' = ReadSkill(libIn.skills, libIn.name, libIn.readable)
  /\ libPc' = "returned"
  /\ UNCHANGED <<libOp, libIn, slotVars, initVars, mcpVars, chatVars, agentVars>>

CallNormalizeMessages ==
  /\ libPc = "called"
  /\ libOp = "normalizeMessages"
  /\ libOut' = NormalizeMessages(libIn.messages)
  /\ libPc' = "returned"
  /\ UNCHANGED <<libOp, libIn, slotVars, initVars, mcpVars, chatVars, agentVars>>

NextLib ==
  \/ CallJsonSchemaToZod
  \/ CallGetToolsAsAITools
  \/ CallReadSkill
  \/ CallNormalizeMessages

InitLib ==
  /\ initialized = FALSE
  /\ fsStatus = "none"
  /\ serverUp = TRUE
  /\ mcpPc = "idle"
  /\ connectOutcome = "none"
  /\ mcpTools = {}
  /\ openClients = 0
  /\ SlotIdle
  /\ InitIdle
  /\ ChatIdle
  /\ AgentIdle
  /\ \E call \in LibCalls :
       /\ libOp = call.op
       /\ libIn = call.in
  /\ libPc = "called"
  /\ libOut = <<>>

SpecLib == InitLib /\ [][NextLib]_vars

LibReturned(op) == libOp = op /\ libPc = "returned"

(***************************************************************************)
(* Claims about the library functions                                      *)
(***************************************************************************)
\* what the translation of a schema is said to accept: a required property
\* must be present and conform, any other may be missing, an array is a
\* sequence of conforming elements (strings when items is not given)
RECURSIVE ConformsTo(_, _)
ConformsTo(schema, value) ==
  LET kind == ZodKind(schema)
  IN  IF kind = "object"
      THEN /\ value.kind = "object"
           /\ \A k \in DOMAIN schema.props :
                IF k \in schema.required
                THEN k \in DOMAIN value.fields /\ ConformsTo(schema.props[k], value.fields[k])
                ELSE k \notin DOMAIN value.fields \/ ConformsTo(schema.props[k], value.fields[k])
      ELSE IF kind = "array"
      THEN /\ value.kind = "array"
           /\ \A i \in 1..Len(value.elems) :
                ConformsTo(IF schema.items = <<>> THEN LeafSchema("string") ELSE schema.items[1],
                           value.elems[i])
      ELSE kind = "any" \/ value.kind = kind

\* C22: the validator translated from an object or array schema accepts
\* exactly the payloads in which every required property is present and
\* conforms, every other property is missing or conforms, and every array
\* element conforms to the element schema (string by default)
C22_RequiredIsMandatory ==
  (LibReturned("jsonSchemaToZod") /\ ZodKind(libIn.schema) \in {"object", "array"})
    => (libOut.accepted = ConformsTo(libIn.schema, libIn.payload))

\* the same, for the schemas whose required properties are all of a
\* recognised kind
RequiredOfKnownKindIsMandatory ==
  (/\ LibReturned("jsonSchemaToZod")
   /\ ZodKind(libIn.schema) \in {"object", "array"}
   /\ \A k \in DOMAIN libIn.schema.props \cap libIn.schema.required :
        ZodKind(libIn.schema.props[k]) # "any")
    => (libOut.accepted = ConformsTo(libIn.schema, libIn.payload))

\* C23: a schema translates to the accept-anything validator exactly when
\* its type is none of string, number, integer, boolean, array, object and
\* it has no properties
C23_AnyIffUnrecognised ==
  LibReturned("jsonSchemaToZod") =>
    ((libOut.zod.kind = "any") <=>
       (/\ libIn.schema.type \notin {"string", "number", "integer", "boolean", "array", "object"}
        /\ ~libIn.schema.hasProps))

\* a schema without a type and without properties was translated
C23_Witness ==
  /\ LibReturned("jsonSchemaToZod")
  /\ libIn.schema.type = "absent"
  /\ ~libIn.schema.hasProps
  /\ libOut.zod.kind = "any"

\* C23 as stated: accept-anything exactly when the type is none of string,
\* number, boolean, array, object
C23_AnyIffNotOfFiveKinds ==
  LibReturned("jsonSchemaToZod") =>
    ((libOut.zod.kind = "any") <=>
       (libIn.schema.type \notin {"string", "number", "boolean", "array", "object"}))

InCatalog(skills, name) ==
  /\ name # Absent
  /\ \E i \in 1..Len(skills) : skills[i].name = Trim(name)

\* C25: readSkill called with a missing or blank name, or with a name that
\* is not in the catalog, returns success:false with an error text and the
\* available skill names, throws nothing and reads no file; the only file
\* it ever reads is the one of the catalog's skill of the name given
C25_FailureBeforeAnyRead ==
  LibReturned("readSkill") =>
    /\ ~libOut.threw
    /\ ~InCatalog(libIn.skills, libIn.name) =>
         /\ libOut.result.success = FALSE
         /\ libOut.result.error # ""
         /\ libOut.result.availableSkills = [i \in 1..Len(libIn.skills) |-> libIn.skills[i].name]
         /\ libOut.filesRead = <<>>
    /\ \A i \in 1..Len(libOut.filesRead) :
         \E j \in 1..Len(libIn.skills) :
           /\ libIn.skills[j].name = Trim(libIn.name)
           /\ libOut.filesRead[i] = libIn.skills[j].path

\* a name that is not blank and not in a non-empty catalog was refused
C25_Witness ==
  /\ LibReturned("readSkill")
  /\ libIn.skills # <<>>
  /\ libIn.name # Absent
  /\ Trim(libIn.name) # <<>>
  /\ ~InCatalog(libIn.skills, libIn.name)
  /\ libOut.result.success = FALSE
  /\ libOut.filesRead = <<>>

\* the text a block is rendered to
RenderedText(block) ==
  IF block.type = "text" THEN block.text
  ELSE IF block.type = "tool-call"
  THEN FormatToolCall(OrUnknown(block.toolName), block.args)
  ELSE FormatToolResult(OrUnknown(block.toolName), block.result)

IsText(text) == text # ""

\* C26: normalizeMessages returns as many messages in the same order, each
\* with a role among user, assistant, system (tool turned into assistant,
\* any other kept) and a string content: a string content as it was, a
\* block content as the rendered texts of its blocks in block order (a text
\* block without text adds nothing)
C26_NormalizedInOrder ==
  LibReturned("normalizeMessages") =>
    /\ Len(libOut) = Len(libIn.messages)
    /\ \A i \in 1..Len(libOut) :
         LET in == libIn.messages[i]
             out == libOut[i]
         IN  /\ out.role \in {"user", "assistant", "system"}
             /\ out.role = (IF in.role = "tool" THEN "assistant" ELSE in.role)
             /\ in.isString => out.content = in.text
             /\ ~in.isString =>
                  out.content =
                    Join(SelectSeq([j \in 1..Len(in.blocks) |-> RenderedText(in.blocks[j])], IsText),
                         "\n\n")

\* a text block followed by a tool call was flattened, and a message of
\* role tool came after it
C26_Witness ==
  /\ LibReturned("normalizeMessages")
  /\ Len(libIn.messages) = 2
  /\ ~libIn.messages[1].isString
  /\ Len(libIn.messages[1].blocks) = 2
  /\ libIn.messages[1].blocks[1].type = "text"
  /\ libIn.messages[1].blocks[1].text # ""
  /\ libIn.messages[1].blocks[2].type = "tool-call"
  /\ libIn.messages[2].role = "tool"
  /\ libOut[2].role = "assistant"
  /\ libOut[1].content =
       libIn.messages[1].blocks[1].text \o "\n\n" \o RenderedText(libIn.messages[1].blocks[2])

(***************************************************************************)
(* Further claims about the Orchestrator                                   *)
(***************************************************************************)
\* C28: orchestrate returns as many results as tasks; the i-th result is
\* the AgentResult attached to the i-th task of the plan and carries the
\* name of the agent the task is assigned to; the task ids are task-1 to
\* task-n, pairwise distinct
C28_ResultsAlignedWithPlan ==
  (entry = "collaborativeTask" /\ orchPc = "returned") =>
    /\ Len(results) = Len(tasks)
    /\ \A i \in 1..Len(tasks) :
         /\ results[i] = tasks[i].result
         /\ results[i].agentName = tasks[i].assignedAgent
         /\ tasks[i].id = "task-" \o ToString(i)
    /\ \A i, j \in 1..Len(tasks) : tasks[i].id = tasks[j].id => i = j

\* a plan of two tasks for the same agent was executed, one task failed and
\* the other did not
C28_Witness ==
  /\ entry = "collaborativeTask"
  /\ orchPc = "returned"
  /\ Len(tasks) = 2
  /\ tasks[1].assignedAgent = tasks[2].assignedAgent
  /\ results[1].success # results[2].success

(***************************************************************************)
(* Further claims about the MCP client manager                             *)
(***************************************************************************)
\* C29: whenever isInitialized() is true the filesystem source is
\* 'connected'; initialize() on an initialized manager opens no connection
\* and changes nothing; after close() isInitialized() is false and
\* getAllMCPTools() returns the fallback tools only
C29_InitializedMeansConnected ==
  /\ [](initialized => fsStatus = "connected")
  /\ [][(InitializeMCP /\ initialized) =>
          (/\ UNCHANGED <<initialized, fsStatus, openClients, mcpTools, tools>>
           /\ connectOutcome' = "skipped")]_vars
  /\ [][Close => (~initialized' /\ GetAllMCPTools' = FallbackTools)]_vars

\* initialize() returned at once on an initialized, connected manager
C29_Witness ==
  /\ mcpPc = "initReturned"
  /\ connectOutcome = "skipped"
  /\ initialized
  /\ fsStatus = "connected"
  /\ openClients = 1

(***************************************************************************)
(* initialize() calls that overlap in time                                 *)
(***************************************************************************)
overlapRest == <<mcpPc, connectOutcome, mcpTools, chatVars, agentVars, slotVars, libVars>>

\* initialize up to its await: an initialized manager returns at once,
\* otherwise the caller goes on to connect
InitializeBegin(c) ==
  /\ initPc[c] = "new"
  /\ initPc' = [initPc EXCEPT ![c] = IF initialized THEN "returned" ELSE "connecting"]
  /\ UNCHANGED <<initialized, fsStatus, serverUp, openClients, connects, overlapRest>>

\* the awaited initializeFilesystemServer of caller c and the rest of its
\* initialize: a connected client is stored under 'filesystem' in place of
\* whatever was there, and initialized is set; a failure stores 'error'
InitializeConnect(c) ==
  /\ initPc[c] = "connecting"
  /\ IF serverUp
     THEN /\ openClients < MaxOpenClients
          /\ fsStatus' = "connected"
          /\ initialized' = TRUE
          /\ openClients' = openClients + 1
          /\ connects' = connects + 1
     ELSE /\ fsStatus' = "error"
          /\ UNCHANGED <<initialized, openClients, connects>>
  /\ initPc' = [initPc EXCEPT ![c] = "returned"]
  /\ UNCHANGED <<serverUp, overlapRest>>

\* the caller is free to call initialize again
InitializeReturn(c) ==
  /\ initPc[c] = "returned"
  /\ initPc' = [initPc EXCEPT ![c] = "new"]
  /\ UNCHANGED <<initialized, fsStatus, serverUp, openClients, connects, overlapRest>>

\* close(): the client stored in the map is closed if it is connected (its
\* close may throw), initialized is reset
CloseClients ==
  /\ \/ /\ fsStatus = "connected"
        /\ fsStatus' = "disconnected"
        /\ openClients' = openClients - 1
     \/ UNCHANGED <<fsStatus, openClients>>
  /\ initialized' = FALSE
  /\ connects' = 0
  /\ UNCHANGED <<serverUp, initPc, overlapRest>>

NextOverlap ==
  \/ \E c \in Callers : InitializeBegin(c)
  \/ \E c \in Callers : InitializeConnect(c)
  \/ \E c \in Callers : InitializeReturn(c)
  \/ CloseClients
  \/ ServerFails
  \/ ServerRecovers

SpecOverlap == InitMcp /\ [][NextOverlap]_vars

====
